---- MODULE Spec2Model ----
(***************************************************************************)
(* The Image view of crates/common/src/view/image.rs: a layout rect, an    *)
(* optional source path, a OnceLock holding the computed raster, and the   *)
(* dirty flag of the View contract.                                        *)
(*                                                                         *)
(* Rasters are modelled by what the pipeline decides about them: their     *)
(* dimensions, the source they were decoded from, the size they were       *)
(* scaled to, the radius handed to round() and the overlay offset.         *)
(* The collaborators (image::open, the fast_image_resize Resizer, the      *)
(* Display) are inputs: each call's outcome is chosen from the outcomes    *)
(* the collaborator can produce.                                           *)
(***************************************************************************)
EXTENDS Integers, FiniteSets, Sequences, TLC

\* ------------------------------------------------------------------ bounds
\* u32 is modelled as an unsigned word of WordBits bits, so that operands
\* whose product wraps can be enumerated.
WordBits == 2
\* rect.w and rect.h range over 1..MaxRect.
MaxRect == 2
\* a decoded source is 0..MaxSrc wide and high.
MaxSrc == 3
\* border_radius ranges over 0..MaxRadius.
MaxRadius == 2
\* ghost counter of pipeline runs per path generation is capped here.
MaxRuns == 2

\* ------------------------------------------------------------------ values
RECURSIVE Pow2(_)
Pow2(n) == IF n = 0 THEN 1 ELSE 2 * Pow2(n - 1)

U32Modulus == Pow2(WordBits)

Min(a, b) == IF a <= b THEN a ELSE b

\* a - b on u32, saturating at 0
saturating_sub(a, b) == IF a >= b THEN a - b ELSE 0

\* Option<PathBuf>: None, a file that does not exist, and a file that may
None == "None"
Missing == "missing"
Paths == {Missing, "a"}
OptPaths == {None} \cup Paths

ImageMode == {"Raw", "Cover", "Contain"}
Alignment == {"Left", "Center", "Right"}

Dims == 0 .. Min(MaxSrc, U32Modulus - 1)
DecodeError == [tag |-> "err"]
Decoded(w, h) == [tag |-> "ok", w |-> w, h |-> h]

\* what image::open(path) can return: an error for the missing file, and an
\* error or an image of any size for the others
open(p) ==
    IF p = Missing THEN {DecodeError}
    ELSE {DecodeError} \cup {Decoded(w, h) : w \in Dims, h \in Dims}

\* OnceLock<Option<RgbaImage>>: uninitialised, Some(None), Some(Some(raster))
Uninit == [tag |-> "uninit"]
NoRaster == [tag |-> "none"]
NotRounded == -1

\* ------------------------------------------------------------------ state
VARIABLES
    rect,           \* [x, y, w, h]
    path,           \* Option<PathBuf>
    image,          \* the OnceLock
    mode,
    border_radius,
    alignment,
    dirty,
    last,           \* the last call: [op, ret, blit, calc]; for draw, what it
                    \* returned, what it blitted and the pipeline run it made
    runs            \* pipeline runs since the path was last replaced

vars == <<rect, path, image, mode, border_radius, alignment, dirty, last, runs>>

widget == <<rect, path, image, mode, border_radius, alignment, dirty>>

NoBlit == [tag |-> "nothing"]
NoCalc == [tag |-> "none"]

\* ret is draw's Result ("Ok", "Err(load)", "Err(blit)", or "Panic" when the
\* call unwound); for set_path it records what the call did ("same",
\* "replaced", or "cleared" when it emptied a populated OnceLock).
\* blit is the raster draw handed to the Display, NoBlit when it handed none.
Call(op) == [op |-> op, ret |-> "-", blit |-> NoBlit, calc |-> NoCalc]

\* ------------------------------------------------------------------ pipeline
\* Image::resize_image: Some(new_width x new_height), or None when the
\* resizer rejects the buffers
resize_image(new_width, new_height, resizeOk) ==
    IF resizeOk THEN [tag |-> "ok", w |-> new_width, h |-> new_height]
    ELSE [tag |-> "none"]

\* a * b on u32: panics when overflow checks are compiled in and the product
\* does not fit, wraps otherwise
mul(a, b, overflowChecks) ==
    IF a * b >= U32Modulus /\ overflowChecks
    THEN [tag |-> "panic", why |-> "multiply with overflow"]
    ELSE [tag |-> "ok", v |-> (a * b) % U32Modulus]

\* a / b on u32: panics on b = 0
div(a, b) ==
    IF b = 0 THEN [tag |-> "panic", why |-> "divide by zero"]
    ELSE [tag |-> "ok", v |-> a \div b]

\* rect.h.min(rect.w * image.height() / image.width()), and the same with the
\* axes exchanged
contain_side(limit, other, num, den, overflowChecks) ==
    LET p == mul(other, num, overflowChecks) IN
    IF p.tag = "panic" THEN p
    ELSE LET q == div(p.v, den) IN
         IF q.tag = "panic" THEN q
         ELSE [tag |-> "ok", v |-> Min(limit, q.v)]

\* the match on mode, lines 126-146: [tag |-> "ok", w, h, target] with the
\* dimensions of the raster after scaling, "none" when resize_image returned
\* None, "panic" when the arithmetic panicked
scale(src, r, m, resizeOk, overflowChecks) ==
    IF m = "Raw" THEN [tag |-> "ok", w |-> src.w, h |-> src.h, target |-> <<>>]
    ELSE IF src.w = r.w /\ src.h = r.h
    THEN [tag |-> "ok", w |-> src.w, h |-> src.h, target |-> <<>>]
    ELSE IF m = "Cover"
    THEN LET out == resize_image(r.w, r.h, resizeOk) IN
         IF out.tag = "none" THEN [tag |-> "none", target |-> <<r.w, r.h>>]
         ELSE [tag |-> "ok", w |-> out.w, h |-> out.h, target |-> <<r.w, r.h>>]
    ELSE LET new_height == contain_side(r.h, r.w, src.h, src.w, overflowChecks) IN
         IF new_height.tag = "panic" THEN new_height
         ELSE LET new_width == contain_side(r.w, r.h, src.w, src.h, overflowChecks) IN
              IF new_width.tag = "panic" THEN new_width
              ELSE LET out == resize_image(new_width.v, new_height.v, resizeOk) IN
                   IF out.tag = "none"
                   THEN [tag |-> "none", target |-> <<new_width.v, new_height.v>>]
                   ELSE [tag |-> "ok", w |-> out.w, h |-> out.h,
                         target |-> <<new_width.v, new_height.v>>]

\* mutant: the radius is clamped to half the width only
rounding_width_only(radius, w, h) ==
    IF radius # 0 THEN Min(radius, w \div 2) ELSE NotRounded

\* lines 148-151: the radius handed to round(), NotRounded when it is skipped
rounding(radius, w, h) ==
    IF radius # 0 THEN Min(Min(radius, w \div 2), h \div 2) ELSE NotRounded

\* crate::display::image::round, by the corner radius of what it leaves:
\* round(image, 0) masks nothing, as does not calling it
round(rounded) == IF rounded = NotRounded THEN 0 ELSE rounded

\* mutant: the offsets are computed with a wrapping subtraction
overlay_x_wrapping(al, r, w) ==
    CASE al = "Left" -> 0
      [] al = "Center" -> ((r.w - w) % U32Modulus) \div 2
      [] al = "Right" -> (r.w - w) % U32Modulus

\* lines 154-158: the horizontal overlay offset
overlay_x(al, r, w) ==
    CASE al = "Left" -> 0
      [] al = "Center" -> saturating_sub(r.w, w) \div 2
      [] al = "Right" -> saturating_sub(r.w, w)

\* mutant: only a raster smaller than the rect is overlaid on a background
composite_only_smaller(p, src, w, h, rounded, r, al) ==
    IF w < r.w \/ h < r.h
    THEN [tag |-> "some", w |-> r.w, h |-> r.h, from |-> p, src |-> <<src.w, src.h>>,
          scaled |-> <<w, h>>, rounded |-> rounded, overlaid |-> TRUE,
          x |-> overlay_x(al, r, w), y |-> 0]
    ELSE [tag |-> "some", w |-> w, h |-> h, from |-> p, src |-> <<src.w, src.h>>,
          scaled |-> <<w, h>>, rounded |-> rounded, overlaid |-> FALSE, x |-> 0, y |-> 0]

\* lines 152-164: the raster is overlaid on a rect-sized background when its
\* size differs from the rect's, and is returned as it is otherwise
composite(p, src, w, h, rounded, r, al) ==
    IF w # r.w \/ h # r.h
    THEN [tag |-> "some", w |-> r.w, h |-> r.h, from |-> p, src |-> <<src.w, src.h>>,
          scaled |-> <<w, h>>, rounded |-> rounded, overlaid |-> TRUE,
          x |-> overlay_x(al, r, w), y |-> 0]
    ELSE [tag |-> "some", w |-> w, h |-> h, from |-> p, src |-> <<src.w, src.h>>,
          scaled |-> <<w, h>>, rounded |-> rounded, overlaid |-> FALSE, x |-> 0, y |-> 0]

\* Image::image: [value, calc], value being the Option<RgbaImage> returned
\* (or a panic) and calc the record of the run
Image_image(p, r, m, radius, al, src, resizeOk, overflowChecks) ==
    IF src.tag = "err"
    THEN [value |-> NoRaster, calc |-> [tag |-> "ran", src |-> src, target |-> <<>>, out |-> "none"]]
    ELSE LET s == scale(src, r, m, resizeOk, overflowChecks) IN
         IF s.tag = "panic"
         THEN [value |-> [tag |-> "panic"],
               calc |-> [tag |-> "ran", src |-> src, target |-> <<>>, out |-> s.why]]
         ELSE IF s.tag = "none"
         THEN [value |-> NoRaster,
               calc |-> [tag |-> "ran", src |-> src, target |-> s.target, out |-> "none"]]
         ELSE [value |-> composite(p, src, s.w, s.h, rounding(radius, s.w, s.h), r, al),
               calc |-> [tag |-> "ran", src |-> src, target |-> s.target, out |-> "some"]]

\* ------------------------------------------------------------------ operations
RectSides == 1 .. Min(MaxRect, U32Modulus - 1)
Rects == [x : {0}, y : {0}, w : RectSides, h : RectSides]

\* the Points handed to set_position: the origin and one other
Points == {[x |-> 0, y |-> 0], [x |-> 1, y |-> 2]}

\* Image::new(rect, path, mode) and Image::empty(rect, mode)
Init ==
    /\ rect \in Rects
    /\ path \in OptPaths
    /\ mode \in ImageMode
    /\ image = Uninit
    /\ border_radius = 0
    /\ alignment = "Left"
    /\ dirty = TRUE
    /\ last = Call("new")
    /\ runs = 0

\* a panic ends the program
Running == last.ret # "Panic"

\* mutant: a new radius also empties the OnceLock
set_border_radius_invalidating ==
    /\ Running
    /\ \E radius \in 0 .. MaxRadius : border_radius' = radius
    /\ dirty' = TRUE
    /\ image' = Uninit
    /\ last' = Call("set_border_radius")
    /\ UNCHANGED <<rect, path, mode, alignment, runs>>

set_border_radius ==
    /\ Running
    /\ \E radius \in 0 .. MaxRadius : border_radius' = radius
    /\ dirty' = TRUE
    /\ last' = Call("set_border_radius")
    /\ UNCHANGED <<rect, path, image, mode, alignment, runs>>

\* mutant: the OnceLock is replaced on every call, equal path or not
set_path_always_reset ==
    /\ Running
    /\ \E p \in OptPaths :
          /\ image' = Uninit
          /\ dirty' = TRUE
          /\ path' = p
          /\ runs' = IF p # path THEN 0 ELSE runs
          /\ last' = [Call("set_path") EXCEPT
                         !.ret = IF p = path THEN "same"
                                 ELSE IF image = Uninit THEN "replaced" ELSE "cleared"]
    /\ UNCHANGED <<rect, mode, border_radius, alignment>>

\* mutant: set_path requests a redraw whether or not the path changed
set_path_always_dirty ==
    /\ Running
    /\ \E p \in OptPaths :
          IF p # path
          THEN /\ image' = Uninit
               /\ path' = p
               /\ runs' = 0
               /\ last' = [Call("set_path") EXCEPT
                              !.ret = IF image = Uninit THEN "replaced" ELSE "cleared"]
          ELSE /\ UNCHANGED <<image, path, runs>>
               /\ last' = [Call("set_path") EXCEPT !.ret = "same"]
    /\ dirty' = TRUE
    /\ UNCHANGED <<rect, mode, border_radius, alignment>>

\* mutant: the OnceLock is kept when the path is taken away
set_path_keeping_cache_on_none ==
    /\ Running
    /\ \E p \in OptPaths :
          IF p # path
          THEN /\ image' = IF p = None THEN image ELSE Uninit
               /\ dirty' = TRUE
               /\ path' = p
               /\ runs' = 0
               /\ last' = [Call("set_path") EXCEPT
                              !.ret = IF image = Uninit THEN "replaced" ELSE "cleared"]
          ELSE /\ UNCHANGED <<image, dirty, path, runs>>
               /\ last' = [Call("set_path") EXCEPT !.ret = "same"]
    /\ UNCHANGED <<rect, mode, border_radius, alignment>>

set_path ==
    /\ Running
    /\ \E p \in OptPaths :
          IF p # path
          THEN /\ image' = Uninit
               /\ dirty' = TRUE
               /\ path' = p
               /\ runs' = 0
               /\ last' = [Call("set_path") EXCEPT
                              !.ret = IF image = Uninit THEN "replaced" ELSE "cleared"]
          ELSE /\ UNCHANGED <<image, dirty, path, runs>>
               /\ last' = [Call("set_path") EXCEPT !.ret = "same"]
    /\ UNCHANGED <<rect, mode, border_radius, alignment>>

\* mutant: set_alignment requests a redraw, as the other setters do
set_alignment_marking_dirty ==
    /\ Running
    /\ \E al \in Alignment : alignment' = al
    /\ dirty' = TRUE
    /\ last' = Call("set_alignment")
    /\ UNCHANGED <<rect, path, image, mode, border_radius, runs>>

\* mutant: a new alignment also empties the OnceLock
set_alignment_invalidating ==
    /\ Running
    /\ \E al \in Alignment : alignment' = al
    /\ image' = Uninit
    /\ last' = Call("set_alignment")
    /\ UNCHANGED <<rect, path, mode, border_radius, dirty, runs>>

set_alignment ==
    /\ Running
    /\ \E al \in Alignment : alignment' = al
    /\ last' = Call("set_alignment")
    /\ UNCHANGED <<rect, path, image, mode, border_radius, dirty, runs>>

\* mutant: set_should_draw does nothing
set_should_draw_noop ==
    /\ Running
    /\ last' = Call("set_should_draw")
    /\ UNCHANGED <<rect, path, image, mode, border_radius, alignment, dirty, runs>>

set_should_draw ==
    /\ Running
    /\ dirty' = TRUE
    /\ last' = Call("set_should_draw")
    /\ UNCHANGED <<rect, path, image, mode, border_radius, alignment, runs>>

\* mutant: set_position moves the widget without requesting a redraw
set_position_without_dirty ==
    /\ Running
    /\ \E point \in Points :
          /\ rect' = [rect EXCEPT !.x = point.x, !.y = point.y]
          /\ last' = [op |-> "set_position", ret |-> "-", blit |-> NoBlit,
                       calc |-> NoCalc, point |-> point]
    /\ UNCHANGED <<path, image, mode, border_radius, alignment, dirty, runs>>

\* the record of the call keeps the Point it was given
set_position ==
    /\ Running
    /\ \E point \in Points :
          /\ rect' = [rect EXCEPT !.x = point.x, !.y = point.y]
          /\ last' = [op |-> "set_position", ret |-> "-", blit |-> NoBlit,
                       calc |-> NoCalc, point |-> point]
    /\ dirty' = TRUE
    /\ UNCHANGED <<path, image, mode, border_radius, alignment, runs>>

should_draw == dirty

\* what the Display does with one draw: accept load and blit, reject the
\* load, or accept the load and reject the blit
DisplayOutcomes == {"ok", "load_err", "blit_err"}

\* the runs Image::image can make for the current fields: one per outcome of
\* image::open, of the resizer and of the build's overflow checks
PipelineRuns ==
    {Image_image(path, rect, mode, border_radius, alignment, src, resizeOk, overflowChecks) :
        src \in open(path), resizeOk \in BOOLEAN, overflowChecks \in BOOLEAN}

\* mutant: the raster is computed again whenever the widget is dirty
needs_init_when_dirty == image = Uninit \/ dirty

\* mutant: a cached None does not count as initialised, so a failed decode
\* is attempted again by the next draw
needs_init_retrying == image = Uninit \/ image = NoRaster

\* OnceLock::get_or_init runs its closure only on an uninitialised cell
needs_init == image = Uninit

\* mutant: a completed draw always leaves the widget clean
draw_display_always_clean(cell, image_loaded, display, ran) ==
    /\ image' = cell
    /\ IF display = "load_err"
       THEN /\ last' = [op |-> "draw", ret |-> "Err(load)", blit |-> NoBlit, calc |-> ran]
            /\ UNCHANGED dirty
       ELSE IF cell.tag = "some" /\ display = "blit_err"
       THEN /\ last' = [op |-> "draw", ret |-> "Err(blit)", blit |-> cell, calc |-> ran]
            /\ UNCHANGED dirty
       ELSE /\ last' = [op |-> "draw", ret |-> "Ok",
                        blit |-> IF cell.tag = "some" THEN cell ELSE NoBlit,
                        calc |-> ran]
            /\ dirty' = FALSE

\* mutant: the dirty flag forgets that a pathless widget has nothing to load
draw_display_no_path_check(cell, image_loaded, display, ran) ==
    /\ image' = cell
    /\ IF display = "load_err"
       THEN /\ last' = [op |-> "draw", ret |-> "Err(load)", blit |-> NoBlit, calc |-> ran]
            /\ UNCHANGED dirty
       ELSE IF cell.tag = "some" /\ display = "blit_err"
       THEN /\ last' = [op |-> "draw", ret |-> "Err(blit)", blit |-> cell, calc |-> ran]
            /\ UNCHANGED dirty
       ELSE /\ last' = [op |-> "draw", ret |-> "Ok",
                        blit |-> IF cell.tag = "some" THEN cell ELSE NoBlit,
                        calc |-> ran]
            /\ dirty' = ~image_loaded

\* mutant: the dirty flag is updated before the display is called, so a
\* rejected draw has already changed it
draw_display_dirty_first(cell, image_loaded, display, ran) ==
    /\ image' = cell
    /\ dirty' = (~image_loaded /\ path # None)
    /\ IF display = "load_err"
       THEN last' = [op |-> "draw", ret |-> "Err(load)", blit |-> NoBlit, calc |-> ran]
       ELSE IF cell.tag = "some" /\ display = "blit_err"
       THEN last' = [op |-> "draw", ret |-> "Err(blit)", blit |-> cell, calc |-> ran]
       ELSE last' = [op |-> "draw", ret |-> "Ok",
                     blit |-> IF cell.tag = "some" THEN cell ELSE NoBlit,
                     calc |-> ran]

\* View::draw, lines 186-195, once get_or_init has left `cell` in the OnceLock
draw_display(cell, image_loaded, display, ran) ==
    /\ image' = cell
    /\ IF display = "load_err"
       THEN /\ last' = [op |-> "draw", ret |-> "Err(load)", blit |-> NoBlit, calc |-> ran]
            /\ UNCHANGED dirty
       ELSE IF cell.tag = "some" /\ display = "blit_err"
       THEN /\ last' = [op |-> "draw", ret |-> "Err(blit)", blit |-> cell, calc |-> ran]
            /\ UNCHANGED dirty
       ELSE /\ last' = [op |-> "draw", ret |-> "Ok",
                        blit |-> IF cell.tag = "some" THEN cell ELSE NoBlit,
                        calc |-> ran]
            /\ dirty' = (~image_loaded /\ path # None)

\* View::draw
draw ==
    /\ Running
    /\ \E display \in DisplayOutcomes :
          IF path # None
          THEN IF needs_init
               THEN /\ runs < MaxRuns
                    /\ runs' = runs + 1
                    /\ \E run \in PipelineRuns :
                          IF run.value.tag = "panic"
                          THEN /\ last' = [op |-> "draw", ret |-> "Panic", blit |-> NoBlit,
                                           calc |-> run.calc]
                               /\ UNCHANGED <<image, dirty>>
                          ELSE draw_display(run.value, run.value.tag = "some", display, run.calc)
               ELSE /\ draw_display(image, image.tag = "some", display, NoCalc)
                    /\ UNCHANGED runs
          ELSE /\ draw_display(image, FALSE, display, NoCalc)
               /\ UNCHANGED runs
    /\ UNCHANGED <<rect, path, mode, border_radius, alignment>>

Next ==
    \/ set_border_radius
    \/ set_path
    \/ set_alignment
    \/ set_should_draw
    \/ set_position
    \/ draw

Spec == Init /\ [][Next]_vars

\* ------------------------------------------------------------------ claims
DrewOk == last.op = "draw" /\ last.ret = "Ok"

\* C1: compute-once. Between two path replacements the pipeline runs at most
\* once; a populated OnceLock keeps its value through every call that leaves
\* the path alone; a draw on a populated OnceLock runs no pipeline and hands
\* the display the memoized raster (nothing when the memoized value is None).
C1_ComputeOnce ==
    /\ [](runs <= 1)
    /\ [][(image # Uninit /\ path' = path) => image' = image]_vars
    /\ [][(image # Uninit /\ last'.op = "draw") =>
            /\ last'.calc = NoCalc
            /\ last'.blit \in {NoBlit, image}
            /\ (last'.ret = "Ok" /\ image.tag = "some") => last'.blit = image]_vars

\* a draw that reused a raster computed under another radius and alignment,
\* at another position
C1_Witness ==
    /\ DrewOk
    /\ last.calc = NoCalc
    /\ last.blit.tag = "some"
    /\ last.blit.rounded = NotRounded
    /\ border_radius # 0
    /\ last.blit.overlaid /\ last.blit.x = 0 /\ last.blit.scaled[1] < rect.w
    /\ alignment = "Right"
    /\ rect.x # 0

\* C2: every set_path with a value unequal to the current path leaves the
\* OnceLock empty, and a populated OnceLock becomes empty only in such a call.
C2_ClearedExactlyOnPathChange ==
    [][/\ (path' # path => (image' = Uninit /\ last'.op = "set_path"))
       /\ (image # Uninit /\ image' = Uninit) => (last'.op = "set_path" /\ path' # path)]_vars

\* a set_path that emptied a populated OnceLock
C2_Witness == last.op = "set_path" /\ last.ret = "cleared" /\ image = Uninit

\* C3: a widget bound to the path whose decode always fails is dirty before
\* its first draw and after every draw (whatever the display answers).
C3_DirtyFailureLoop == path = Missing => should_draw

\* a second or later draw of the missing file, accepted by the display
C3_Witness ==
    /\ path = Missing
    /\ DrewOk
    /\ last.calc = NoCalc
    /\ image = NoRaster
    /\ should_draw

\* C4 as stated: once None is cached, every draw returns Ok(true).
C4_FailedDrawReturnsOk ==
    [][(image = NoRaster /\ last'.op = "draw") => last'.ret = "Ok"]_vars

\* C4 amended: once None is cached for the current path it stays cached
\* until the path is replaced by a different value; every draw until then
\* runs no pipeline, hands nothing to the display, and returns Ok(true) or,
\* when the display rejects the load, the display's error.
C4_NoRetryAfterFailure ==
    [][image = NoRaster =>
          /\ (path' = path => image' = NoRaster /\ runs' = runs)
          /\ (last'.op = "draw" =>
                /\ last'.calc = NoCalc
                /\ last'.blit = NoBlit
                /\ last'.ret \in {"Ok", "Err(load)"})]_vars

\* a later draw, accepted by the display, after an existing file failed to
\* decode
C4_Witness ==
    /\ path = "a"
    /\ image = NoRaster
    /\ DrewOk
    /\ last.calc = NoCalc
    /\ runs = 1

\* C5: after every draw that returns Ok, dirty = (!loaded && path.is_some()),
\* loaded meaning that the OnceLock holds a raster.
C5_DirtyAfterDraw ==
    DrewOk => (dirty = (image.tag # "some" /\ path # None))

\* an accepted draw of a widget whose existing file failed to decode
C5_Witness == DrewOk /\ path = "a" /\ image = NoRaster /\ dirty

\* C6 as stated: once a pathless widget is clean it stays clean through every
\* call that leaves the path None.
C6_PathlessStaysClean ==
    [][(path = None /\ ~should_draw /\ path' = None) => ~should_draw']_vars

\* C6 amended: a draw of a pathless widget that returns Ok leaves it clean,
\* and it then stays clean through draw, set_alignment and set_path(None);
\* set_border_radius, set_should_draw and set_position mark it dirty again,
\* as does set_path with a Some value.
C6_PathlessCleanUntilMarked ==
    /\ [](DrewOk /\ path = None => ~should_draw)
    /\ [][(path = None /\ ~should_draw /\ path' = None
            /\ last'.op \notin {"set_border_radius", "set_should_draw", "set_position"})
          => ~should_draw']_vars
    /\ [][(path = None
            /\ last'.op \in {"set_border_radius", "set_should_draw", "set_position"})
          => should_draw']_vars

\* a pathless widget, drawn, still clean after a set_alignment
C6_Witness ==
    /\ path = None
    /\ ~should_draw
    /\ last.op = "set_alignment"
    /\ alignment # "Left"

\* C7: set_border_radius on a populated OnceLock marks the widget dirty and
\* leaves the raster as it is; the raster stays until the path is replaced by
\* a different value, and it is the raster every later draw hands to the
\* display.
C7_StaleRadius ==
    /\ [][(image.tag = "some" /\ last'.op = "set_border_radius") =>
            (should_draw' /\ image' = image)]_vars
    /\ [][(image.tag = "some" /\ path' = path) => image' = image]_vars
    /\ [][(image.tag = "some" /\ last'.op = "draw" /\ last'.ret # "Err(load)") =>
            last'.blit = image]_vars

\* a draw, after a set_border_radius, of a raster whose rounding is not the
\* one the current radius would give
C7_Witness ==
    /\ DrewOk
    /\ last.calc = NoCalc
    /\ last.blit = image
    /\ image.tag = "some"
    /\ image.rounded # NotRounded
    /\ image.rounded # rounding(border_radius, image.scaled[1], image.scaled[2])

\* C8: a raster that draw hands to the display is exactly rect.w x rect.h.
C8_RasterHasRectSize ==
    (last.op = "draw" /\ last.blit.tag = "some") =>
        (last.blit.w = rect.w /\ last.blit.h = rect.h)

\* a Raw draw of a source wider and higher than the rect
C8_Witness ==
    /\ DrewOk
    /\ mode = "Raw"
    /\ last.blit.tag = "some"
    /\ last.blit.src[1] > rect.w
    /\ last.blit.src[2] > rect.h

\* the last call was a draw that ran the Contain size computation on `src`
ContainRun ==
    /\ last.op = "draw"
    /\ mode = "Contain"
    /\ last.calc.tag = "ran"
    /\ last.calc.src.tag = "ok"
    /\ ~(last.calc.src.w = rect.w /\ last.calc.src.h = rect.h)

\* C9: for a source with positive dimensions that does not equal the rect,
\* the new_w and new_h that Contain computes satisfy new_w <= rect.w and
\* new_h <= rect.h with new_w = rect.w or new_h = rect.h.
C9_ContainFitsAndSaturates ==
    (ContainRun /\ last.calc.src.w > 0 /\ last.calc.src.h > 0
        /\ Len(last.calc.target) = 2) =>
        /\ last.calc.target[1] <= rect.w
        /\ last.calc.target[2] <= rect.h
        /\ (last.calc.target[1] = rect.w \/ last.calc.target[2] = rect.h)

\* C10: a source with a zero width or height drawn in Contain mode makes draw
\* fail with InvalidDimension, and no division by zero is performed.
C10_ZeroDimensionRejected ==
    (ContainRun /\ (last.calc.src.w = 0 \/ last.calc.src.h = 0)) =>
        (last.ret = "Err(InvalidDimension)" /\ last.calc.out # "divide by zero")

\* the last call was a draw whose pipeline run produced the cached raster
Computed == last.op = "draw" /\ last.calc.tag = "ran" /\ image.tag = "some"

\* C11: a scaled raster whose size differs from the rect's is overlaid at
\* (x, 0), x being 0 for Left, floor((rect.w - raster.w) / 2) for Center and
\* rect.w - raster.w for Right, and 0 for both when raster.w > rect.w; the
\* alignment is the one current at the run. A raster of the rect's size is
\* not overlaid.
C11_CompositingOffset ==
    Computed =>
        LET w == image.scaled[1]
            h == image.scaled[2]
        IN  /\ image.overlaid = (w # rect.w \/ h # rect.h)
            /\ image.overlaid =>
                  /\ image.y = 0
                  /\ alignment = "Left" => image.x = 0
                  /\ (alignment = "Center" /\ w <= rect.w) => 2 * image.x \in {rect.w - w - 1, rect.w - w}
                  /\ (alignment = "Right" /\ w <= rect.w) => image.x + w = rect.w
                  /\ w > rect.w => image.x = 0

\* a Right-aligned Raw raster wider than the rect, overlaid at x = 0
C11_Witness ==
    /\ Computed
    /\ alignment = "Right"
    /\ image.overlaid
    /\ image.scaled[1] > rect.w
    /\ image.x = 0

\* C12: for a post-scale raster of w x h, a requested radius >= min(w,h)/2
\* gives the rounding that requesting exactly min(w,h)/2 gives; when
\* min(w,h)/2 = 0 that is the unrounded raster, whether round() is skipped
\* (request 0) or called with 0 (a larger request).
C12_RadiusClamp ==
    Computed =>
        LET w == image.scaled[1]
            h == image.scaled[2]
            half == Min(w, h) \div 2
        IN  /\ border_radius >= half =>
                  round(image.rounded) = round(rounding(half, w, h))
            /\ (half = 0 /\ border_radius > 0) => image.rounded = 0
            /\ border_radius = 0 => image.rounded = NotRounded

\* a request larger than min(w,h)/2 = 0: round() is called with 0
C12_Witness ==
    /\ Computed
    /\ Min(image.scaled[1], image.scaled[2]) \div 2 = 0
    /\ border_radius > 0
    /\ image.rounded = 0

\* C13: set_path with a value equal to the current path changes nothing of
\* the widget: not the OnceLock, not the path, not the dirty flag.
C13_SamePathIsNoOp ==
    [][(last'.op = "set_path" /\ path' = path) => UNCHANGED widget]_vars

\* a clean widget holding a raster, after a set_path with its own path
C13_Witness ==
    /\ last.op = "set_path"
    /\ last.ret = "same"
    /\ image.tag = "some"
    /\ ~should_draw

\* C14: set_alignment changes the alignment field only; the OnceLock and the
\* dirty flag stay, and a later draw hands the display the raster as it was
\* computed.
C14_AlignmentOnly ==
    /\ [][last'.op = "set_alignment" =>
            UNCHANGED <<rect, path, image, mode, border_radius, dirty>>]_vars
    /\ [][(image.tag = "some" /\ last'.op = "draw" /\ last'.ret = "Ok") =>
            (last'.blit = image /\ image' = image)]_vars

\* a clean widget after a set_alignment under which its raster would have
\* been overlaid elsewhere
C14_Witness ==
    /\ last.op = "set_alignment"
    /\ ~should_draw
    /\ image.tag = "some"
    /\ image.overlaid
    /\ image.x # overlay_x(alignment, rect, image.scaled[1])

\* C15: set_position sets rect.x and rect.y to the Point's, marks the widget
\* dirty and leaves the OnceLock, the path, rect.w and rect.h alone; no call
\* changes rect.w or rect.h.
C15_SetPosition ==
    /\ [][last'.op = "set_position" =>
            /\ rect'.x = last'.point.x
            /\ rect'.y = last'.point.y
            /\ should_draw'
            /\ UNCHANGED <<image, path, mode, border_radius, alignment>>]_vars
    /\ [][rect'.w = rect.w /\ rect'.h = rect.h]_vars

\* a widget holding a raster, moved away from the origin
C15_Witness ==
    /\ last.op = "set_position"
    /\ rect.x = 1
    /\ rect.y = 2
    /\ image.tag = "some"
    /\ should_draw

\* C16: a populated OnceLock was computed from the current path: a pathless
\* widget has an empty OnceLock, and a raster handed to the display was
\* decoded from the path the widget has.
C16_CacheIsOfCurrentPath ==
    /\ path = None => image = Uninit
    /\ image.tag = "some" => image.from = path
    /\ (last.op = "draw" /\ last.blit.tag = "some") => last.blit.from = path
    /\ (last.op = "draw" /\ path = None) => last.blit = NoBlit

\* a populated OnceLock emptied by set_path(None)
C16_Witness ==
    /\ last.op = "set_path"
    /\ last.ret = "cleared"
    /\ path = None
    /\ image = Uninit

\* C17: a draw that the display rejects returns the error and leaves the
\* dirty flag as it was; if it was the first draw of the path, the OnceLock
\* is populated all the same, and no later draw runs the pipeline again.
C17_DisplayError ==
    /\ [][(last'.op = "draw" /\ last'.ret \in {"Err(load)", "Err(blit)"}) =>
            /\ dirty' = dirty
            /\ (image = Uninit /\ path # None) =>
                  (image' # Uninit /\ last'.calc.tag = "ran")]_vars
    /\ [][(image # Uninit /\ last'.op = "draw") =>
            (last'.calc = NoCalc /\ image' = image)]_vars

\* a rejected load in the draw that decoded and cached the raster
C17_Witness ==
    /\ last.op = "draw"
    /\ last.ret = "Err(load)"
    /\ last.calc.tag = "ran"
    /\ image.tag = "some"
    /\ should_draw

\* C18: the widget is dirty after construction and after set_border_radius,
\* set_position, set_should_draw and set_path with a different value, and the
\* dirty flag becomes false only in a draw that returns Ok.
C18_NoLostRedraw ==
    /\ [](last.op = "new" => should_draw)
    /\ [][(\/ last'.op \in {"set_border_radius", "set_position", "set_should_draw"}
           \/ (last'.op = "set_path" /\ path' # path)) => should_draw']_vars
    /\ [][(should_draw /\ ~should_draw') =>
            (last'.op = "draw" /\ last'.ret = "Ok")]_vars

\* a redraw request that outlived a draw whose blit the display rejected
C18_Witness ==
    /\ last.op = "draw"
    /\ last.ret = "Err(blit)"
    /\ last.calc = NoCalc
    /\ should_draw

====
